---- MODULE Spec2Model ----
(***************************************************************************)
(* Usage metering of the AI strategy service (ai_service/app.py).          *)
(*                                                                         *)
(* The ai_usage table is a sequence of rows; concurrent request handlers   *)
(* (Flask workers running strategy_suggestion) interleave at every         *)
(* statement that touches the table or reads the clock.                    *)
(*                                                                         *)
(* Units: time in days, tokens in millions of tokens, money in US cents,   *)
(* so that the per-million-token prices of PRICES are integers.            *)
(***************************************************************************)
EXTENDS Integers, Sequences, FiniteSets

\* ---------------------------------------------------------------- bounds
NumHandlers == 2
MaxRequests == 2
MaxTokens == 1
TickDays == 30
MaxNow == 60

\* ------------------------------------------------------ program constants
\* timedelta(days=30)
WINDOW_DAYS == 30
\* AI_MONTHLY_LIMIT_USD, in cents (the value is configuration)
MONTHLY_LIMIT_USD == 45
OPENAI_MODEL == "gpt-5-nano"

ModelNames == {"gpt-5-nano", "gpt-5-mini", "gpt-3.5-turbo"}

\* USD per million tokens, in cents
PRICES ==
  [m \in ModelNames |->
     CASE m = "gpt-5-nano"    -> [in |-> 5,  out |-> 40]
       [] m = "gpt-5-mini"    -> [in |-> 25, out |-> 200]
       [] m = "gpt-3.5-turbo" -> [in |-> 50, out |-> 150]]

\* variant: the two rates are applied to the wrong token counts
cost_with_swapped_rates(tokens_in, tokens_out, model_name) ==
  IF model_name \notin DOMAIN PRICES
    THEN 0
    ELSE tokens_in * PRICES[model_name].out + tokens_out * PRICES[model_name].in

calculate_openai_cost(tokens_in, tokens_out, model_name) ==
  IF model_name \notin DOMAIN PRICES
    THEN 0
    ELSE tokens_in * PRICES[model_name].in + tokens_out * PRICES[model_name].out

Users == {"alice", "bob"}
Handlers == 1..NumHandlers

None == [none |-> TRUE]

\* ------------------------------------------------------------ the table
\* rows of ai_usage whose user_id is u, in table order
RECURSIVE RowsOf(_, _)
RowsOf(tbl, u) ==
  IF tbl = <<>> THEN <<>>
  ELSE IF Head(tbl).user_id = u
         THEN <<Head(tbl)>> \o RowsOf(Tail(tbl), u)
         ELSE RowsOf(Tail(tbl), u)

HasRow(tbl, u) == \E i \in 1..Len(tbl) : tbl[i].user_id = u

\* variant: a plain INSERT, no conflict clause and no primary key
InsertAlways(tbl, u, reset_date) ==
  Append(tbl, [user_id |-> u, token_count |-> 0, monthly_cost |-> 0,
               reset_date |-> reset_date])

\* variant: ON CONFLICT (user_id) DO UPDATE, overwriting the existing row
InsertOrOverwrite(tbl, u, reset_date) ==
  IF HasRow(tbl, u)
    THEN [i \in 1..Len(tbl) |->
            IF tbl[i].user_id = u
              THEN [user_id |-> u, token_count |-> 0, monthly_cost |-> 0,
                    reset_date |-> reset_date]
              ELSE tbl[i]]
    ELSE Append(tbl, [user_id |-> u, token_count |-> 0, monthly_cost |-> 0,
                      reset_date |-> reset_date])

\* variant: the conflict test looks at the whole table, not at user_id
InsertIfTableEmpty(tbl, u, reset_date) ==
  IF tbl # <<>>
    THEN tbl
    ELSE Append(tbl, [user_id |-> u, token_count |-> 0, monthly_cost |-> 0,
                      reset_date |-> reset_date])

\* INSERT ... ON CONFLICT (user_id) DO NOTHING
InsertOnConflictDoNothing(tbl, u, reset_date) ==
  IF HasRow(tbl, u)
    THEN tbl
    ELSE Append(tbl, [user_id |-> u, token_count |-> 0, monthly_cost |-> 0,
                      reset_date |-> reset_date])

\* SELECT token_count, monthly_cost, reset_date ... ; fetchone()
get_usage(tbl, u) ==
  IF HasRow(tbl, u)
    THEN LET r == RowsOf(tbl, u)[1]
         IN [token_count |-> r.token_count, monthly_cost |-> r.monthly_cost,
             reset_date |-> r.reset_date]
    ELSE None

\* variant: SET token_count = t, the addend stored instead of added
OverwriteRow(row, tokens, cost) ==
  [row EXCEPT !.token_count = tokens,
              !.monthly_cost = row.monthly_cost + cost]

\* variant: the statement is executed twice
IncrementRowTwice(row, tokens, cost) ==
  [row EXCEPT !.token_count = row.token_count + tokens + tokens,
              !.monthly_cost = row.monthly_cost + cost + cost]

\* UPDATE ai_usage SET token_count = token_count + t, monthly_cost = monthly_cost + c
IncrementRow(row, tokens, cost) ==
  [row EXCEPT !.token_count = row.token_count + tokens,
              !.monthly_cost = row.monthly_cost + cost]

\* variant: the UPDATE has no WHERE clause
update_usage_all_rows(tbl, u, tokens, cost) ==
  [i \in 1..Len(tbl) |-> IncrementRow(tbl[i], tokens, cost)]

update_usage(tbl, u, tokens, cost) ==
  [i \in 1..Len(tbl) |->
     IF tbl[i].user_id = u THEN IncrementRow(tbl[i], tokens, cost) ELSE tbl[i]]

\* variant: the new window is counted from the old reset_date
ResetRowFromOldDate(row, new_reset) ==
  [row EXCEPT !.token_count = 0, !.monthly_cost = 0,
              !.reset_date = row.reset_date + WINDOW_DAYS]

\* UPDATE ai_usage SET token_count = 0, monthly_cost = 0, reset_date = new_reset
ResetRow(row, new_reset) ==
  [row EXCEPT !.token_count = 0, !.monthly_cost = 0, !.reset_date = new_reset]

reset_update(tbl, u, new_reset) ==
  [i \in 1..Len(tbl) |->
     IF tbl[i].user_id = u THEN ResetRow(tbl[i], new_reset) ELSE tbl[i]]

\* variant: now > usage['reset_date']
ResetDueStrict(n, usage) == n > usage.reset_date

\* now >= usage['reset_date']
ResetDue(n, usage) == n >= usage.reset_date

\* variant: usage["monthly_cost"] > MONTHLY_LIMIT_USD
OverLimitStrict(usage) == usage.monthly_cost > MONTHLY_LIMIT_USD

\* usage["monthly_cost"] >= MONTHLY_LIMIT_USD
OverLimit(usage) == usage.monthly_cost >= MONTHLY_LIMIT_USD

\* variant: a failed reset UPDATE is swallowed and the handler carries on
SwallowResetError(step) == IF step = "reset_update" THEN "budget" ELSE "failed"

\* an exception raised by a store operation is not caught by the handler
AfterStoreError(step) == "failed"

\* variant: the exception of the completion call is swallowed
AlwaysRecord(ok) == "record"

\* the completion call either returns a response or raises
AfterExternal(ok) == IF ok THEN "record" ELSE "failed"

\* ---------------------------------------------------------------- state
VARIABLES
  now,        \* datetime.utcnow(), in days
  table,      \* the ai_usage table
  pc,         \* position of each handler in strategy_suggestion
  user,       \* user_id of the request a handler is serving
  usage,      \* the handler's local usage dict
  nowS,       \* the handler's local `now` (init_user_usage / reset_if_needed)
  tokens,     \* tokens_in, tokens_out of the response the handler received
  ext,        \* outcome of the handler's completion call: none / ok / failed
  failedAt,   \* the store operation that raised in this request, if any
  replaced,   \* the stored values that this request's reset UPDATE overwrote
  recorded,   \* number of update_usage statements this request has executed
  accrued,    \* per user: sums of the update_usage arguments since the last
              \* insert or reset of the user's row
  requests,   \* number of requests received so far
  model_name  \* the configured completion model (OPENAI_MODEL)

vars == <<now, table, pc, user, usage, nowS, tokens, ext, failedAt, replaced, recorded,
          accrued, requests, model_name>>

NoUser == "-"
NoTokens == [in |-> 0, out |-> 0]
Zero == [token_count |-> 0, monthly_cost |-> 0]

Init ==
  /\ now = 0
  /\ table = <<>>
  /\ pc = [p \in Handlers |-> "idle"]
  /\ user = [p \in Handlers |-> NoUser]
  /\ usage = [p \in Handlers |-> None]
  /\ nowS = [p \in Handlers |-> 0]
  /\ tokens = [p \in Handlers |-> NoTokens]
  /\ ext = [p \in Handlers |-> "none"]
  /\ failedAt = [p \in Handlers |-> "none"]
  /\ replaced = [p \in Handlers |-> None]
  /\ recorded = [p \in Handlers |-> 0]
  /\ accrued = [u \in Users |-> Zero]
  /\ requests = 0
  /\ model_name = OPENAI_MODEL

\* the clock advances
Tick ==
  /\ now + TickDays <= MaxNow
  /\ now' = now + TickDays
  /\ UNCHANGED <<table, pc, user, usage, nowS, tokens, ext, failedAt, replaced, recorded,
                 accrued, requests, model_name>>

\* a request arrives; init_user_usage samples the clock
Receive(p, u) ==
  /\ pc[p] = "idle"
  /\ requests < MaxRequests
  /\ requests' = requests + 1
  /\ user' = [user EXCEPT ![p] = u]
  /\ nowS' = [nowS EXCEPT ![p] = now]
  /\ pc' = [pc EXCEPT ![p] = "init"]
  /\ UNCHANGED <<now, table, usage, tokens, ext, failedAt, replaced, recorded, accrued, model_name>>

\* the locals of a handler whose request ended with an exception: the frame
\* of strategy_suggestion is unwound
Unwound(f, p, next, empty) == IF next = "failed" THEN [f EXCEPT ![p] = empty] ELSE f

\* a store operation raises (connection or statement failure)
StoreError(p) ==
  /\ pc[p] \in {"init", "get", "reset_update", "record"}
  /\ failedAt' = [failedAt EXCEPT ![p] = pc[p]]
  /\ LET next == AfterStoreError(pc[p])
     IN /\ pc' = [pc EXCEPT ![p] = next]
        /\ usage' = Unwound(usage, p, next, None)
        /\ nowS' = Unwound(nowS, p, next, 0)
        /\ tokens' = Unwound(tokens, p, next, NoTokens)
        /\ replaced' = Unwound(replaced, p, next, None)
  /\ UNCHANGED <<now, table, user, ext, recorded, accrued, requests, model_name>>

\* init_user_usage: the INSERT
InitUserUsage(p) ==
  /\ pc[p] = "init"
  /\ table' = InsertOnConflictDoNothing(table, user[p], nowS[p] + WINDOW_DAYS)
  /\ pc' = [pc EXCEPT ![p] = "get"]
  /\ UNCHANGED <<now, user, usage, nowS, tokens, ext, failedAt, replaced, recorded,
                 accrued, requests, model_name>>

\* usage = get_usage(user_id)
GetUsage(p) ==
  /\ pc[p] = "get"
  /\ usage' = [usage EXCEPT ![p] = get_usage(table, user[p])]
  /\ pc' = [pc EXCEPT ![p] = "reset_check"]
  /\ UNCHANGED <<now, table, user, nowS, tokens, ext, failedAt, replaced, recorded,
                 accrued, requests, model_name>>

\* reset_if_needed: sample the clock and compare with the snapshot
ResetCheck(p) ==
  /\ pc[p] = "reset_check"
  /\ nowS' = [nowS EXCEPT ![p] = now]
  /\ pc' = [pc EXCEPT ![p] =
              IF usage[p] = None THEN "failed"
              ELSE IF ResetDue(now, usage[p]) THEN "reset_update"
              ELSE "budget"]
  /\ UNCHANGED <<now, table, user, usage, tokens, ext, failedAt, replaced, recorded,
                 accrued, requests, model_name>>

\* reset_if_needed: the UPDATE and the refresh of the local dict
ResetUpdate(p) ==
  /\ pc[p] = "reset_update"
  /\ table' = reset_update(table, user[p], nowS[p] + WINDOW_DAYS)
  /\ usage' = [usage EXCEPT ![p] =
                 [token_count |-> 0, monthly_cost |-> 0,
                  reset_date |-> nowS[p] + WINDOW_DAYS]]
  /\ accrued' = [accrued EXCEPT ![user[p]] = Zero]
  /\ replaced' = [replaced EXCEPT ![p] = get_usage(table, user[p])]
  /\ pc' = [pc EXCEPT ![p] = "budget"]
  /\ UNCHANGED <<now, user, nowS, tokens, ext, failedAt, recorded, requests, model_name>>

\* if usage["monthly_cost"] >= MONTHLY_LIMIT_USD: return 403
CheckBudget(p) ==
  /\ pc[p] = "budget"
  /\ pc' = [pc EXCEPT ![p] = IF OverLimit(usage[p]) THEN "rejected" ELSE "external"]
  /\ UNCHANGED <<now, table, user, usage, nowS, tokens, ext, failedAt, replaced, recorded,
                 accrued, requests, model_name>>

\* client.chat.completions.create(...) returns a response whose usage
\* reports tin prompt tokens and tout completion tokens
ExternalOk(p, tin, tout) ==
  /\ pc[p] = "external"
  /\ ext' = [ext EXCEPT ![p] = "ok"]
  /\ tokens' = [tokens EXCEPT ![p] = [in |-> tin, out |-> tout]]
  /\ pc' = [pc EXCEPT ![p] = AfterExternal(TRUE)]
  /\ UNCHANGED <<now, table, user, usage, nowS, failedAt, replaced, recorded, accrued,
                 requests, model_name>>

\* client.chat.completions.create(...) raises (failure or timeout)
ExternalFail(p) ==
  /\ pc[p] = "external"
  /\ ext' = [ext EXCEPT ![p] = "failed"]
  /\ LET next == AfterExternal(FALSE)
     IN /\ pc' = [pc EXCEPT ![p] = next]
        /\ usage' = Unwound(usage, p, next, None)
        /\ nowS' = Unwound(nowS, p, next, 0)
        /\ replaced' = Unwound(replaced, p, next, None)
  /\ UNCHANGED <<now, table, user, tokens, failedAt, recorded, accrued, requests, model_name>>

\* cost computation, update_usage, and the refresh of the local dict
RecordUsage(p) ==
  /\ pc[p] = "record"
  /\ LET total_tokens == tokens[p].in + tokens[p].out
         cost == calculate_openai_cost(tokens[p].in, tokens[p].out, model_name)
     IN /\ table' = update_usage(table, user[p], total_tokens, cost)
        /\ usage' = [usage EXCEPT ![p] =
                       [@ EXCEPT !.token_count = @ + total_tokens,
                                 !.monthly_cost = @ + cost]]
        /\ accrued' = [accrued EXCEPT ![user[p]] =
                         [token_count |-> @.token_count + total_tokens,
                          monthly_cost |-> @.monthly_cost + cost]]
  /\ recorded' = [recorded EXCEPT ![p] = @ + 1]
  /\ pc' = [pc EXCEPT ![p] = "done"]
  /\ UNCHANGED <<now, user, nowS, tokens, ext, failedAt, replaced, requests, model_name>>

\* the response (200, 403 or 500) has been sent; the worker is free again
Return(p) ==
  /\ pc[p] \in {"done", "rejected", "failed"}
  /\ pc' = [pc EXCEPT ![p] = "idle"]
  /\ user' = [user EXCEPT ![p] = NoUser]
  /\ usage' = [usage EXCEPT ![p] = None]
  /\ nowS' = [nowS EXCEPT ![p] = 0]
  /\ tokens' = [tokens EXCEPT ![p] = NoTokens]
  /\ ext' = [ext EXCEPT ![p] = "none"]
  /\ failedAt' = [failedAt EXCEPT ![p] = "none"]
  /\ replaced' = [replaced EXCEPT ![p] = None]
  /\ recorded' = [recorded EXCEPT ![p] = 0]
  /\ UNCHANGED <<now, table, accrued, requests, model_name>>

strategy_suggestion(p) ==
  \/ \E u \in Users : Receive(p, u)
  \/ StoreError(p)
  \/ InitUserUsage(p)
  \/ GetUsage(p)
  \/ ResetCheck(p)
  \/ ResetUpdate(p)
  \/ CheckBudget(p)
  \/ \E t \in 0..MaxTokens : ExternalOk(p, t, t)
  \/ ExternalFail(p)
  \/ RecordUsage(p)
  \/ Return(p)

Next ==
  \/ Tick
  \/ \E p \in Handlers : strategy_suggestion(p)

Spec == Init /\ [][Next]_vars

\* the handlers run one at a time: a single worker serves all requests
NextSeq ==
  \/ Tick
  \/ strategy_suggestion(1)

SpecSeq == Init /\ [][NextSeq]_vars

\* a request arrives, with no bound on the number of requests
Arrive(p, u) ==
  /\ pc[p] = "idle"
  /\ user' = [user EXCEPT ![p] = u]
  /\ nowS' = [nowS EXCEPT ![p] = now]
  /\ pc' = [pc EXCEPT ![p] = "init"]
  /\ UNCHANGED <<now, table, usage, tokens, ext, failedAt, replaced, recorded,
                 accrued, requests, model_name>>

\* a worker serving the requests of one user while the store and the
\* completion service are available; every response reports the largest
\* token usage
Serve(p) ==
  \/ Arrive(p, "alice")
  \/ InitUserUsage(p)
  \/ GetUsage(p)
  \/ ResetCheck(p)
  \/ ResetUpdate(p)
  \/ CheckBudget(p)
  \/ ExternalOk(p, MaxTokens, MaxTokens)
  \/ RecordUsage(p)
  \/ Return(p)

NextLive ==
  \/ Tick
  \/ \E p \in Handlers : Serve(p)

\* the clock advances, every worker keeps running and the user keeps sending
\* requests
Fairness ==
  /\ WF_vars(Tick)
  /\ \A p \in Handlers : WF_vars(Serve(p))

SpecLive == Init /\ [][NextLive]_vars /\ Fairness

\* the service configured with any model name, priced or not; one worker,
\* responses with any prompt and completion token counts
ConfiguredModels == ModelNames \cup {"unknown-model"}

InitCost ==
  /\ now = 0
  /\ table = <<>>
  /\ pc = [p \in Handlers |-> "idle"]
  /\ user = [p \in Handlers |-> NoUser]
  /\ usage = [p \in Handlers |-> None]
  /\ nowS = [p \in Handlers |-> 0]
  /\ tokens = [p \in Handlers |-> NoTokens]
  /\ ext = [p \in Handlers |-> "none"]
  /\ failedAt = [p \in Handlers |-> "none"]
  /\ replaced = [p \in Handlers |-> None]
  /\ recorded = [p \in Handlers |-> 0]
  /\ accrued = [u \in Users |-> Zero]
  /\ requests = 0
  /\ model_name \in ConfiguredModels

ServeCost(p) ==
  \/ \E u \in Users : Receive(p, u)
  \/ StoreError(p)
  \/ InitUserUsage(p)
  \/ GetUsage(p)
  \/ ResetCheck(p)
  \/ ResetUpdate(p)
  \/ CheckBudget(p)
  \/ \E tin \in 0..MaxTokens, tout \in 0..MaxTokens : ExternalOk(p, tin, tout)
  \/ ExternalFail(p)
  \/ RecordUsage(p)
  \/ Return(p)

NextCost ==
  \/ Tick
  \/ ServeCost(1)

SpecCost == InitCost /\ [][NextCost]_vars

\* round(usage["monthly_cost"], 4): the amount in units of 0.0001 USD
round4(cents) == cents * 100

\* the "usage" object of the 200 response
ResponseUsage(u) ==
  [tokens_used |-> u.token_count, cost_so_far |-> round4(u.monthly_cost)]

\* ---------------------------------------------------------------- claims
Row(u) == RowsOf(table, u)[1]
RowNext(u) == RowsOf(table', u)[1]

\* the largest cost one request can record
MaxRequestCost == calculate_openai_cost(MaxTokens, MaxTokens, OPENAI_MODEL)

\* C1: the stored monthly_cost never reaches cap + the largest cost of a
\* single request, whatever the interleaving of the handlers.
C1_CapPlusOneRequest ==
  \A i \in 1..Len(table) :
    table[i].monthly_cost < MONTHLY_LIMIT_USD + MaxRequestCost

\* C2: within a window token_count and monthly_cost only increase; they go
\* back to zero only in a step taken when the clock has reached the reset_date
\* stored at that moment.
C2_ResetOnlyWhenDue ==
  [][\A u \in Users :
       (HasRow(table, u) /\ HasRow(table', u)) =>
         \/ /\ RowNext(u).token_count >= Row(u).token_count
            /\ RowNext(u).monthly_cost >= Row(u).monthly_cost
         \/ /\ now >= Row(u).reset_date
            /\ RowNext(u).token_count = 0
            /\ RowNext(u).monthly_cost = 0]_vars

\* C3: a request is rejected exactly when its snapshot (after the rollover
\* check) has monthly_cost >= cap; such a request never reaches the
\* completion call nor update_usage.
C3_BudgetGate ==
  \A p \in Handlers :
    /\ pc[p] = "rejected" =>
         /\ usage[p].monthly_cost >= MONTHLY_LIMIT_USD
         /\ ext[p] = "none"
         /\ recorded[p] = 0
    /\ pc[p] \in {"external", "record"} =>
         usage[p].monthly_cost < MONTHLY_LIMIT_USD
    /\ ext[p] # "none" => pc[p] # "rejected"

C3_Witness ==
  \E p \in Handlers :
    /\ pc[p] = "rejected"
    /\ usage[p].monthly_cost >= MONTHLY_LIMIT_USD

\* C4: the stored token_count and monthly_cost of a user equal the sums of
\* the tokens and costs of all update_usage calls made for that user since
\* the window was opened, in every interleaving.
C4_SumOfRecords ==
  \A u \in Users :
    HasRow(table, u) =>
      /\ Row(u).token_count = accrued[u].token_count
      /\ Row(u).monthly_cost = accrued[u].monthly_cost

C4_Witness ==
  \E p \in Handlers, q \in Handlers :
    /\ p # q
    /\ user[p] = user[q]
    /\ pc[p] = "done" /\ pc[q] = "done"
    /\ tokens[p].in + tokens[p].out > 0
    /\ tokens[q].in + tokens[q].out > 0
    /\ replaced[p] = None /\ replaced[q] = None
    /\ Row(user[p]).token_count
         = tokens[p].in + tokens[p].out + tokens[q].in + tokens[q].out

\* C5: however many handlers run init_user_usage for the same new user, the
\* table never holds more than one row for that user, and the row that
\* appears has token_count = 0 and monthly_cost = 0.
C5_OneRecordPerUser ==
  [][\A u \in Users :
       /\ Len(RowsOf(table', u)) <= 1
       /\ (~HasRow(table, u) /\ HasRow(table', u)) =>
            /\ RowNext(u).token_count = 0
            /\ RowNext(u).monthly_cost = 0]_vars

C5_Witness ==
  \E p \in Handlers, q \in Handlers :
    /\ p # q
    /\ user[p] = user[q]
    /\ pc[p] = "get" /\ pc[q] = "get"
    /\ Len(RowsOf(table, user[p])) = 1
    /\ Row(user[p]).token_count = 0
    /\ Row(user[p]).monthly_cost = 0

\* C6: on the read path of a request, if the stored reset_date is at or
\* before the access time, the handler's snapshot and the stored row both
\* become (0, 0, access time + 30 days); if the stored reset_date is still in
\* the future, the row and the snapshot are left as they are.
C6_LazyReset ==
  [][\A p \in Handlers :
       /\ (pc[p] = "reset_check" /\ pc'[p] # "reset_check") =>
            IF now >= Row(user[p]).reset_date
              THEN pc'[p] = "reset_update"
              ELSE /\ pc'[p] = "budget"
                   /\ table' = table
                   /\ usage'[p] = usage[p]
                   /\ usage'[p] = get_usage(table', user[p])
       /\ (pc[p] = "reset_update" /\ pc'[p] = "budget") =>
            /\ nowS[p] >= Row(user[p]).reset_date
            /\ usage'[p] = [token_count |-> 0, monthly_cost |-> 0,
                            reset_date |-> nowS[p] + WINDOW_DAYS]
            /\ get_usage(table', user[p]) = usage'[p]]_vars

C6_Witness ==
  \E p \in Handlers :
    /\ pc[p] = "budget"
    /\ replaced[p] # None
    /\ replaced[p].token_count > 0
    /\ nowS[p] > replaced[p].reset_date
    /\ usage[p].reset_date = nowS[p] + WINDOW_DAYS
    /\ get_usage(table, user[p]) = usage[p]

\* C7: a request is rejected only if the window of its snapshot had not
\* elapsed when reset_if_needed sampled the clock; a request that found its
\* window elapsed is never rejected.
C7_RolloverBeforeBudget ==
  \A p \in Handlers :
    /\ pc[p] = "rejected" =>
         /\ replaced[p] = None
         /\ nowS[p] < usage[p].reset_date
    /\ replaced[p] # None => pc[p] \notin {"rejected"}

C7_Witness ==
  \E p \in Handlers :
    /\ pc[p] = "external"
    /\ replaced[p] # None
    /\ replaced[p].monthly_cost >= MONTHLY_LIMIT_USD

\* C8: a request whose completion call failed executes no update_usage, and
\* update_usage is executed only by requests whose completion call returned.
C8_NoUsageOnFailure ==
  \A p \in Handlers :
    /\ ext[p] = "failed" => (pc[p] = "failed" /\ recorded[p] = 0)
    /\ recorded[p] > 0 => ext[p] = "ok"

C8_Witness ==
  \E p \in Handlers :
    /\ ext[p] = "failed"
    /\ pc[p] = "failed"
    /\ HasRow(table, user[p])
    /\ Row(user[p]).token_count > 0

\* C9: a request in which init_user_usage, get_usage or the reset UPDATE
\* raised has failed and has not performed the completion call.
C9_FailClosed ==
  \A p \in Handlers :
    failedAt[p] \in {"init", "get", "reset_update"} =>
      /\ pc[p] = "failed"
      /\ ext[p] = "none"
      /\ recorded[p] = 0

C9_Witness ==
  \E p \in Handlers :
    /\ failedAt[p] = "reset_update"
    /\ pc[p] = "failed"

\* C10: init_user_usage for a user who already has a row leaves the table
\* as it is.
C10_EnsureKeepsRecord ==
  [][\A p \in Handlers :
       (pc[p] = "init" /\ pc'[p] = "get" /\ HasRow(table, user[p])) =>
         table' = table]_vars

C10_Witness ==
  \E p \in Handlers :
    /\ pc[p] = "get"
    /\ HasRow(table, user[p])
    /\ Row(user[p]).reset_date < nowS[p] + WINDOW_DAYS
    /\ Row(user[p]).token_count > 0

\* the last value the clock takes
LastNow == (MaxNow \div TickDays) * TickDays

\* C11: a user who was rejected while the stored reset_date can still be
\* reached by the clock is eventually admitted again: some request of that
\* user passes the limit test.
C11_RecoverableByWaiting ==
  \A u \in Users :
    (\E p \in Handlers :
       /\ pc[p] = "rejected"
       /\ user[p] = u
       /\ Row(u).reset_date <= LastNow)
    ~> (\E q \in Handlers : user[q] = u /\ pc[q] = "external")

C11_Witness ==
  \E p \in Handlers, q \in Handlers :
    /\ p # q
    /\ user[p] = user[q]
    /\ pc[p] = "rejected"
    /\ pc[q] = "external"
    /\ replaced[q] # None
    /\ replaced[q].monthly_cost >= MONTHLY_LIMIT_USD
    /\ nowS[q] >= usage[p].reset_date

\* C12: inside a request get_usage always finds the user's row: a handler
\* that is about to read has a row to read, rows are never deleted, and the
\* snapshot a handler holds after get_usage is never None.
C12_RecordAlwaysFound ==
  [][\A p \in Handlers :
       /\ pc'[p] = "get" => HasRow(table', user'[p])
       /\ pc'[p] = "reset_check" => usage'[p] # None
       /\ \A u \in Users : HasRow(table, u) => HasRow(table', u)]_vars

C12_Witness ==
  \E p \in Handlers, q \in Handlers :
    /\ p # q
    /\ user[p] # user[q]
    /\ pc[p] = "reset_check" /\ usage[p] # None
    /\ pc[q] = "reset_check" /\ usage[q] # None

\* C13: the cost a request records is tokens_in * input rate + tokens_out *
\* output rate of the configured model, and 0 for a model that has no entry
\* in the pricing table; computing it touches nothing but the user's
\* counters: reset_date, the other rows and the clock stay as they are.
C13_CostFunction ==
  [][\A p \in Handlers :
       (pc[p] = "record" /\ pc'[p] = "done") =>
         LET tin == tokens[p].in
             tout == tokens[p].out
             expected ==
               CASE model_name = "gpt-5-nano"    -> tin * 5 + tout * 40
                 [] model_name = "gpt-5-mini"    -> tin * 25 + tout * 200
                 [] model_name = "gpt-3.5-turbo" -> tin * 50 + tout * 150
                 [] OTHER                        -> 0
         IN /\ RowNext(user[p]).monthly_cost = Row(user[p]).monthly_cost + expected
            /\ usage'[p].monthly_cost = usage[p].monthly_cost + expected
            /\ RowNext(user[p]).reset_date = Row(user[p]).reset_date
            /\ Len(table') = Len(table)
            /\ model_name' = model_name
            /\ now' = now]_vars

C13_Witness ==
  \E p \in Handlers :
    /\ pc[p] = "done"
    /\ model_name = "unknown-model"
    /\ tokens[p].in > 0 /\ tokens[p].out = 0
    /\ Row(user[p]).monthly_cost = 0
    /\ Row(user[p]).token_count > 0

\* C14: the totals a successful request returns are the stored token_count
\* and monthly_cost as they are right after that request's update_usage.
C14_ReturnedTotalsAreStored ==
  [][\A p \in Handlers :
       (pc[p] = "record" /\ pc'[p] = "done") =>
         ResponseUsage(usage'[p]) = ResponseUsage(RowNext(user[p]))]_vars

C16_ResetDateMonotonic ==
  [][\A u \in Users :
       (HasRow(table, u) /\ HasRow(table', u)) =>
         RowNext(u).reset_date >= Row(u).reset_date]_vars

\* the user a step of handler p works for
StepUser(p) == IF pc[p] = "idle" THEN user'[p] ELSE user[p]

\* C17: a step of a request for user u leaves the rows of every other user
\* as they are, and the snapshot the limit test looks at is read from u's
\* own row.
C17_PerUserIsolation ==
  [][\A p \in Handlers :
       pc'[p] # pc[p] =>
         /\ \A v \in Users \ {StepUser(p)} :
              RowsOf(table', v) = RowsOf(table, v)
         /\ (pc[p] = "get" /\ pc'[p] = "reset_check") =>
              /\ usage'[p].token_count = Row(user[p]).token_count
              /\ usage'[p].monthly_cost = Row(user[p]).monthly_cost
              /\ usage'[p].reset_date = Row(user[p]).reset_date]_vars

C17_Witness ==
  \E p \in Handlers, q \in Handlers :
    /\ p # q
    /\ user[p] # NoUser /\ user[q] # NoUser /\ user[p] # user[q]
    /\ pc[p] = "done" /\ tokens[p].in + tokens[p].out > 0
    /\ pc[q] = "budget" /\ replaced[q] = None
    /\ usage[q].token_count = 0
    /\ Row(user[q]).token_count = 0
    /\ Row(user[p]).token_count > 0

====
